---- MODULE Spec2Model ----
(***************************************************************************)
(* Model of the regengo e2e test-case store scripts:                       *)
(*   scripts/manage_e2e_test.py   (upsert one test case)                   *)
(*   scripts/migrate_testdata.py  (re-analyze every test case)             *)
(* Both scripts read and write the same file, e2e/testdata.json.           *)
(*   scripts/curated/chart.py     (benchmark output to comparison chart)   *)
(***************************************************************************)
EXTENDS Integers, Sequences, FiniteSets, TLC

(***************************************************************************)
(* Bounds and input pools                                                  *)
(***************************************************************************)

\* Largest number of records in the store present before the first run.
MaxInitLen == 2

\* Invocations of the scripts; only process 1 runs in the sequential Spec.
Procs == {1, 2}

SeqProcs == {1}

\* Optional values: Python's None is the empty tuple, a value x is <<x>>.
None == << >>

Some(x) == <<x>>

\* Pattern strings given with -p; "a+" and "A+" differ only in case.
Patterns == {"a+", "A+", "hello"}

\* Values of the -i option: absent, or a string.
InputArgs == {None, Some(""), Some("[]"), Some("[\"x\", 1]"), Some("hello world")}

\* Outputs of `regengo -analyze` (JSON objects); the second lists its labels unsorted.
AnalysisResults ==
    { [feature_labels |-> <<"quantifier">>, engine_labels |-> <<"nfa">>],
      [feature_labels |-> <<"quantifier", "anchor">>, engine_labels |-> <<"nfa", "dfa">>] }

\* Inputs of the records of a store written before the first run; None: no "inputs" key.
LegacyInputs == {None, Some(<<"hello world">>)}

(***************************************************************************)
(* Strings: order and hash                                                 *)
(***************************************************************************)

\* Python's str ordering (by code point) on the label strings of the model.
StrRank(s) ==
    CASE s = "anchor" -> 1
      [] s = "dfa" -> 2
      [] s = "nfa" -> 3
      [] s = "quantifier" -> 4

\* hashlib.md5(s.encode("utf-8")).hexdigest(): the first six hex digits of the real
\* digest, as a number (digests of equal length order as their leading digits do).
\*   md5("a+")    = c8948c20094f64200c2b8fba047bdb83
\*   md5("A+")    = 13fe2498bc305f70678a47fc381f3d39
\*   md5("hello") = 5d41402abc4b2a76b9719d911017c592
md5_hash(s) ==
    CASE s = "a+" -> 13145228
      [] s = "A+" -> 1310244
      [] s = "hello" -> 6111552

\* Insert x into the sorted sequence s after every element whose key is <= Key(x):
\* one step of a stable sort.
RECURSIVE InsertByRank(_, _)
InsertByRank(s, x) ==
    IF s = << >> THEN <<x>>
    ELSE IF StrRank(x) < StrRank(Head(s)) THEN <<x>> \o s
         ELSE <<Head(s)>> \o InsertByRank(Tail(s), x)

\* Faulty variant: the labels are stored in the order the analyzer lists them.
sortedSkipped(s) == s

\* sorted(list of str)
RECURSIVE sorted(_)
sorted(s) ==
    IF s = << >> THEN << >>
    ELSE InsertByRank(sorted(SubSeq(s, 1, Len(s) - 1)), s[Len(s)])

\* The sort key of save: md5_hash(tc["pattern"]).
\* Faulty variant: the key is the pattern text itself (its place in code point order).
SortKeyText(tc) ==
    CASE tc.pattern = "A+" -> 1
      [] tc.pattern = "a+" -> 2
      [] OTHER -> 3

SortKey(tc) == md5_hash(tc.pattern)

RECURSIVE InsertByKey(_, _)
InsertByKey(s, tc) ==
    IF s = << >> THEN <<tc>>
    ELSE IF SortKey(tc) < SortKey(Head(s)) THEN <<tc>> \o s
         ELSE <<Head(s)>> \o InsertByKey(Tail(s), tc)

\* Faulty variant: the list is written in the order it was passed.
SortByHashSkipped(s) == s

\* list.sort(key=lambda tc: md5_hash(tc["pattern"])): stable, ascending.
RECURSIVE SortByHash(_)
SortByHash(s) ==
    IF s = << >> THEN << >>
    ELSE InsertByKey(SortByHash(SubSeq(s, 1, Len(s) - 1)), s[Len(s)])

(***************************************************************************)
(* JSON                                                                    *)
(***************************************************************************)

\* The members of a test case object, in the order the scripts create them.
KeyOrder == <<"pattern", "inputs", "feature_labels", "engine_labels">>

\* A JSON value of the store: a string or an array of strings.
JsonValue(k, v) ==
    IF k = "pattern" THEN [t |-> "string", v |-> v] ELSE [t |-> "array", v |-> v]

\* The members of dict d as written by json.dump: (key, value) pairs in key order.
RECURSIVE DumpMembers(_, _)
DumpMembers(d, keys) ==
    IF keys = << >> THEN << >>
    ELSE (IF Head(keys) \in DOMAIN d
          THEN << [key |-> Head(keys), value |-> JsonValue(Head(keys), d[Head(keys)])] >>
          ELSE << >>)
         \o DumpMembers(d, Tail(keys))

\* json.dump(testdata, f, indent=2, ensure_ascii=False): the array of objects.
json_dump(testdata) ==
    [i \in 1..Len(testdata) |-> DumpMembers(testdata[i], KeyOrder)]

\* One parsed object: a dict from its keys to the Python values.
LoadObject(obj) ==
    [k \in {obj[j].key : j \in 1..Len(obj)} |->
        (CHOOSE m \in {obj[j] : j \in 1..Len(obj)} : m.key = k).value.v]

\* json.load(f) on a complete document.
json_load(text) ==
    [i \in 1..Len(text) |-> LoadObject(text[i])]

\* json.loads(inputs_str) for the -i strings of the model: the parsed value, or a
\* JSONDecodeError. Array elements keep their JSON type.
json_loads(s) ==
    CASE s = "[]" -> [t |-> "array", v |-> << >>]
      [] s = "[\"x\", 1]" ->
            [t |-> "array", v |-> << [t |-> "string", v |-> "x"], [t |-> "number", v |-> "1"] >>]
      [] OTHER -> [t |-> "JSONDecodeError"]

\* str(x) of a parsed JSON scalar.
str(x) == x.v

(***************************************************************************)
(* State                                                                   *)
(***************************************************************************)

VARIABLES
    file,          \* e2e/testdata.json: [exists, complete, text]
    pc,            \* pc[p]: where invocation p stands
    prog,          \* prog[p]: the script p runs ("manage", "migrate"; "none": no script)
    pattern,       \* args.pattern of a manage run
    inputs_arg,    \* args.inputs of a manage run (None when -i is not given)
    analysis,      \* manage: the analyzer's result
    testdata,      \* the list loaded from the store
    existing_idx,  \* manage: index (from 0) of the record found, or None
    migrated,      \* migrate: the re-analyzed records
    failed,        \* migrate: the patterns whose analysis failed
    idx,           \* migrate: number of records processed so far
    exitcode,      \* exit status of a finished run, None while it runs
    before,        \* history: the store when the run started
    calls,         \* history: the analyzer invocations of the run, in order
    latest,        \* history: per pattern, the analyzer result last persisted for it
    passed,        \* history: the list as handed to the save, before the sort
    repeated,      \* history: the run repeats the upsert of the run just before it
    seen,          \* history: the file as the run's read of the store found it, or None
    after,         \* history: the invocations whose run had saved when the run read the store
    lines,         \* chart: the lines read from standard input
    results,       \* chart: the averaged results of parse_benchmark_output, or None
    chart          \* assets/curated_benchmark_chart.png: the bars drawn, or None (no file)

locals == <<pattern, inputs_arg, analysis, testdata, existing_idx, migrated, failed, idx>>

history == <<before, calls, latest, passed, repeated, seen, after>>

chartvars == <<lines, results, chart>>

vars == <<file, pc, prog, locals, exitcode, history, chartvars>>

\* The store file does not exist.
AbsentFile == [exists |-> FALSE, complete |-> FALSE, text |-> << >>]

\* open(TESTDATA_PATH, "w"): the file exists and is empty until json.dump has written.
TruncatedFile == [exists |-> TRUE, complete |-> FALSE, text |-> << >>]

\* with open(TESTDATA_PATH, "w") as f: json.dump(data, f, ...); f.write("\n")
WrittenFile(data) == [exists |-> TRUE, complete |-> TRUE, text |-> json_dump(data)]

\* Sequences over S without repetition, of length at most n.
DistinctSeqs(S, n) ==
    UNION { {s \in [1..k -> S] : \A i, j \in 1..k : i # j => s[i] # s[j]} : k \in 0..n }

\* A record written before the labels existed: a pattern and, possibly, inputs.
LegacyRecord(pat, inp) ==
    IF inp = None THEN [pattern |-> pat] ELSE [pattern |-> pat, inputs |-> inp[1]]

\* Stores present before the first run: pairwise distinct patterns, in any order.
InitStores ==
    UNION { { [i \in 1..Len(ps) |-> LegacyRecord(ps[i], inps[i])] :
                inps \in [1..Len(ps) -> LegacyInputs] } :
            ps \in DistinctSeqs(Patterns, MaxInitLen) }

NoLatest == [P \in Patterns |-> None]

\* The memory of an invocation that has not started.
IdleLocals ==
    /\ prog = [p \in Procs |-> "none"]
    /\ pattern = [p \in Procs |-> ""]
    /\ inputs_arg = [p \in Procs |-> None]
    /\ analysis = [p \in Procs |-> None]
    /\ existing_idx = [p \in Procs |-> None]
    /\ migrated = [p \in Procs |-> << >>]
    /\ failed = [p \in Procs |-> << >>]
    /\ idx = [p \in Procs |-> 0]
    /\ exitcode = [p \in Procs |-> None]
    /\ before = [p \in Procs |-> AbsentFile]
    /\ calls = [p \in Procs |-> << >>]
    /\ passed = [p \in Procs |-> << >>]
    /\ repeated = [p \in Procs |-> FALSE]
    /\ seen = [p \in Procs |-> None]
    /\ after = [p \in Procs |-> {}]
    /\ lines = [p \in Procs |-> << >>]
    /\ results = [p \in Procs |-> None]
    /\ chart = None

Init ==
    /\ file \in {AbsentFile} \cup {WrittenFile(s) : s \in InitStores}
    /\ pc = [p \in Procs |-> "idle"]
    /\ testdata = [p \in Procs |-> << >>]
    /\ latest = NoLatest
    /\ IdleLocals

(***************************************************************************)
(* Starting and ending a run                                               *)
(***************************************************************************)

\* A run of p begins: it has read nothing yet, and no read was made after its save.
AfterNone(p) == [q \in Procs |-> IF q = p THEN {} ELSE after[q] \ {p}]

\* The run of p reads the store: the invocations whose run has saved by now.
AfterSaved(p) ==
    [q \in Procs |->
        IF q = p THEN {r \in Procs \ {p} : pc[r] = "exit" /\ exitcode[r] = Some(0)}
        ELSE after[q] \ {p}]

\* The command line (script name, -p, -i) is the one of the run p has just completed
\* with status 0: the same command is run again.
Reruns(p, name, pat, arg) ==
    /\ pc[p] = "exit"
    /\ exitcode[p] = Some(0)
    /\ prog[p] = name
    /\ pattern[p] = pat
    /\ inputs_arg[p] = arg

\* A script starts: a fresh process with the command line's arguments.
StartRun(p, name, pat, arg) ==
    /\ pc[p] = "idle" \/ (name = "manage" /\ Reruns(p, name, pat, arg))
    /\ prog' = [prog EXCEPT ![p] = name]
    /\ pattern' = [pattern EXCEPT ![p] = pat]
    /\ inputs_arg' = [inputs_arg EXCEPT ![p] = arg]
    /\ existing_idx' = [existing_idx EXCEPT ![p] = None]
    /\ migrated' = [migrated EXCEPT ![p] = << >>]
    /\ failed' = [failed EXCEPT ![p] = << >>]
    /\ idx' = [idx EXCEPT ![p] = 0]
    /\ passed' = [passed EXCEPT ![p] = << >>]
    /\ before' = [before EXCEPT ![p] = file]

\* sys.exit(c), the end of main, or an uncaught exception (status 1).
Exit(p, c) ==
    /\ pc' = [pc EXCEPT ![p] = "exit"]
    /\ exitcode' = [exitcode EXCEPT ![p] = Some(c)]

\* The process of a finished run is gone: its memory is released and the script can
\* be invoked again.
Return(p) ==
    /\ pc[p] = "exit"
    /\ pc' = [pc EXCEPT ![p] = "idle"]
    /\ prog' = [prog EXCEPT ![p] = "none"]
    /\ pattern' = [pattern EXCEPT ![p] = ""]
    /\ inputs_arg' = [inputs_arg EXCEPT ![p] = None]
    /\ analysis' = [analysis EXCEPT ![p] = None]
    /\ testdata' = [testdata EXCEPT ![p] = << >>]
    /\ existing_idx' = [existing_idx EXCEPT ![p] = None]
    /\ migrated' = [migrated EXCEPT ![p] = << >>]
    /\ failed' = [failed EXCEPT ![p] = << >>]
    /\ idx' = [idx EXCEPT ![p] = 0]
    /\ exitcode' = [exitcode EXCEPT ![p] = None]
    /\ before' = [before EXCEPT ![p] = AbsentFile]
    /\ calls' = [calls EXCEPT ![p] = << >>]
    /\ passed' = [passed EXCEPT ![p] = << >>]
    /\ repeated' = [repeated EXCEPT ![p] = FALSE]
    /\ seen' = [seen EXCEPT ![p] = None]
    /\ after' = AfterNone(p)
    /\ UNCHANGED <<file, latest>>
    /\ UNCHANGED chartvars

(***************************************************************************)
(* manage_e2e_test.py                                                      *)
(***************************************************************************)

\* parse_inputs(inputs_str)
parse_inputs(inputs_str) ==
    IF inputs_str = None \/ inputs_str = Some("") THEN None
    ELSE LET parsed == json_loads(inputs_str[1]) IN
         IF parsed.t = "array"
         THEN Some([i \in 1..Len(parsed.v) |-> str(parsed.v[i])])
         ELSE Some(<<inputs_str[1]>>)

\* Faulty variant: the test for the file is inverted, an existing store loads as [].
load_testdataInverted(f) == [raised |-> FALSE, data |-> << >>]

\* load_testdata(): the list, or raised (json.load on a file that is not complete).
load_testdata(f) ==
    IF ~f.exists THEN [raised |-> FALSE, data |-> << >>]
    ELSE IF f.complete THEN [raised |-> FALSE, data |-> json_load(f.text)]
    ELSE [raised |-> TRUE, data |-> << >>]

\* Faulty variant: the lookup never finds the pattern.
find_existing_patternNever(td, pat) == None

\* find_existing_pattern(testdata, pattern): the first index (from 0), or None.
find_existing_pattern(td, pat) ==
    IF \E i \in 1..Len(td) : td[i].pattern = pat
    THEN Some((CHOOSE i \in 1..Len(td) :
                  /\ td[i].pattern = pat
                  /\ \A j \in 1..(i - 1) : td[j].pattern # pat) - 1)
    ELSE None

\* tc.get("inputs", ["example"])
GetInputs(tc) == IF "inputs" \in DOMAIN tc THEN tc.inputs ELSE <<"example">>

\* Faulty variant: without -i the default is stored, the record found is not read.
FinalInputsDefault(inputs, td, existing) ==
    IF inputs # None THEN inputs[1] ELSE <<"example">>

\* main, step 5: the inputs to store.
FinalInputs(inputs, td, existing) ==
    IF inputs # None THEN inputs[1]
    ELSE IF existing # None THEN GetInputs(td[existing[1] + 1])
    ELSE <<"example">>

\* main, step 6: the test case.
TestCase(pat, final_inputs, an) ==
    [pattern |-> pat,
     inputs |-> final_inputs,
     feature_labels |-> sorted(an.feature_labels),
     engine_labels |-> sorted(an.engine_labels)]

\* Faulty variant: the index found is used off by one (testdata[existing_idx - 1]), so
\* the record before the one found is overwritten (the last one, from index 0).
UpdateOrAddOffByOne(td, existing, test_case) ==
    IF existing # None
    THEN [td EXCEPT ![IF existing[1] = 0 THEN Len(td) ELSE existing[1]] = test_case]
    ELSE Append(td, test_case)

\* Faulty variant: the list is begun anew, the records loaded are dropped.
UpdateOrAddAlone(td, existing, test_case) == <<test_case>>

\* Faulty variant: the test case is appended whether or not a record was found.
UpdateOrAddAppend(td, existing, test_case) == Append(td, test_case)

\* main, step 7: replace the record found, or append.
UpdateOrAdd(td, existing, test_case) ==
    IF existing # None
    THEN [td EXCEPT ![existing[1] + 1] = test_case]
    ELSE Append(td, test_case)

\* Faulty variant: a failure of the analyzer is swallowed and main goes on with an
\* analysis without labels.
AnalyzedSwallowed(p, result) ==
    /\ analysis' = [analysis EXCEPT ![p] =
                       IF result = None
                       THEN Some([feature_labels |-> << >>, engine_labels |-> << >>])
                       ELSE result]
    /\ pc' = [pc EXCEPT ![p] = "m_load"]
    /\ exitcode' = [exitcode EXCEPT ![p] = None]

\* analyze_pattern returns to main, step 1: a non-zero status of the analyzer ends
\* the run with status 1; a result is kept as the analysis.
Analyzed(p, result) ==
    IF result = None
    THEN /\ Exit(p, 1)
         /\ analysis' = [analysis EXCEPT ![p] = None]
    ELSE /\ analysis' = [analysis EXCEPT ![p] = result]
         /\ pc' = [pc EXCEPT ![p] = "m_load"]
         /\ exitcode' = [exitcode EXCEPT ![p] = None]

\* main, step 1, with analyze_pattern: the binary is missing (no analyzer call), or
\* the analyzer is called and returns a non-zero status (None) or a result.
ManageAnalyze(p) ==
    /\ \E pat \in Patterns, arg \in InputArgs :
        /\ StartRun(p, "manage", pat, arg)
        /\ \/ /\ calls' = [calls EXCEPT ![p] = << >>]
              /\ Exit(p, 1)
              /\ analysis' = [analysis EXCEPT ![p] = None]
              /\ repeated' = [repeated EXCEPT ![p] = FALSE]
           \/ \E result \in {None} \cup {Some(r) : r \in AnalysisResults} :
              /\ calls' = [calls EXCEPT ![p] = << [pattern |-> pat, result |-> result] >>]
              /\ Analyzed(p, result)
              /\ repeated' = [repeated EXCEPT ![p] =
                                 Reruns(p, "manage", pat, arg) /\ result = analysis[p]]
    /\ testdata' = [testdata EXCEPT ![p] = << >>]
    /\ seen' = [seen EXCEPT ![p] = None]
    /\ after' = AfterNone(p)
    /\ UNCHANGED <<file, latest>>
    /\ UNCHANGED chartvars

\* main, steps 2 to 7: parse the inputs, load the store, upsert in memory.
ManageLoad(p) ==
    /\ pc[p] = "m_load"
    /\ LET loaded == load_testdata(file)
           inputs == parse_inputs(inputs_arg[p])
           existing == find_existing_pattern(loaded.data, pattern[p])
           test_case == TestCase(pattern[p],
                                 FinalInputs(inputs, loaded.data, existing),
                                 analysis[p][1])
       IN IF loaded.raised
          THEN /\ Exit(p, 1)
               /\ UNCHANGED <<testdata, existing_idx>>
          ELSE /\ testdata' = [testdata EXCEPT ![p] = UpdateOrAdd(loaded.data, existing, test_case)]
               /\ existing_idx' = [existing_idx EXCEPT ![p] = existing]
               /\ pc' = [pc EXCEPT ![p] = "m_save"]
               /\ UNCHANGED exitcode
    /\ seen' = [seen EXCEPT ![p] = Some(file)]
    /\ after' = AfterSaved(p)
    /\ UNCHANGED <<file, prog, pattern, inputs_arg, analysis, migrated, failed, idx,
                   before, calls, latest, passed, repeated>>
    /\ UNCHANGED chartvars

\* save_testdata, first half: sort the list in place and open the file for writing.
SaveOpen(p) ==
    /\ pc[p] = "m_save"
    /\ passed' = [passed EXCEPT ![p] = testdata[p]]
    /\ testdata' = [testdata EXCEPT ![p] = SortByHash(testdata[p])]
    /\ file' = TruncatedFile
    /\ pc' = [pc EXCEPT ![p] = "m_dump"]
    /\ UNCHANGED <<prog, pattern, inputs_arg, analysis, existing_idx, migrated, failed, idx,
                   exitcode, before, calls, latest, repeated, seen, after>>
    /\ UNCHANGED chartvars

\* save_testdata, second half: write the document; main prints and ends.
SaveDump(p) ==
    /\ pc[p] = "m_dump"
    /\ file' = WrittenFile(testdata[p])
    /\ Exit(p, 0)
    /\ IF prog[p] = "manage"
       THEN latest' = [latest EXCEPT ![pattern[p]] = analysis[p]]
       ELSE UNCHANGED latest
    /\ UNCHANGED <<prog, locals, before, calls, passed, repeated, seen, after>>
    /\ UNCHANGED chartvars

Manage(p) == ManageAnalyze(p) \/ ManageLoad(p) \/ SaveOpen(p) \/ SaveDump(p)

(***************************************************************************)
(* migrate_testdata.py                                                     *)
(***************************************************************************)

\* open(TESTDATA_PATH, "r") and json.load: the list, or raised (no such file, or a
\* file that is not complete).
MigrateRead(f) ==
    IF f.exists /\ f.complete THEN [raised |-> FALSE, data |-> json_load(f.text)]
    ELSE [raised |-> TRUE, data |-> << >>]

\* Faulty variant: the updated test case takes the default inputs, not the record's.
MigratedTestCaseDefault(tc, an) ==
    [pattern |-> tc.pattern,
     inputs |-> <<"example">>,
     feature_labels |-> sorted(an.feature_labels),
     engine_labels |-> sorted(an.engine_labels)]

\* The updated test case of the loop body.
MigratedTestCase(tc, an) ==
    [pattern |-> tc.pattern,
     inputs |-> GetInputs(tc),
     feature_labels |-> sorted(an.feature_labels),
     engine_labels |-> sorted(an.engine_labels)]

\* Faulty variant: the failures are not looked at and the run writes what it has.
MigrateAbortsNever(fl) == FALSE

\* `if failed:` after the loop: report and exit without writing.
MigrateAborts(fl) == fl # << >>

\* main up to the loop: the binary is missing, or the store is read.
MigrateStart(p) ==
    /\ StartRun(p, "migrate", "", None)
    /\ \/ /\ Exit(p, 1)
          /\ testdata' = [testdata EXCEPT ![p] = << >>]
          /\ seen' = [seen EXCEPT ![p] = None]
          /\ after' = AfterNone(p)
       \/ LET loaded == MigrateRead(file) IN
          /\ testdata' = [testdata EXCEPT ![p] = loaded.data]
          /\ seen' = [seen EXCEPT ![p] = Some(file)]
          /\ after' = AfterSaved(p)
          /\ IF loaded.raised
             THEN Exit(p, 1)
             ELSE /\ pc' = [pc EXCEPT ![p] = "g_loop"]
                  /\ exitcode' = [exitcode EXCEPT ![p] = None]
    /\ UNCHANGED <<file, analysis, calls, latest, repeated>>
    /\ UNCHANGED chartvars

\* Faulty variant: `break` in place of `continue`, a failure ends the loop.
LoopBreak(i, n, ok) == IF ok THEN i + 1 ELSE n

\* `for i, tc in enumerate(testdata)`: the number of records processed after one more
\* iteration over a list of n records; `continue` after a failure (ok is FALSE) goes
\* on with the next record.
LoopAdvance(i, n, ok) == i + 1

\* One iteration of the loop: analyze the next record; a failure is recorded and
\* the loop goes on.
MigrateAnalyze(p) ==
    /\ pc[p] = "g_loop"
    /\ idx[p] < Len(testdata[p])
    /\ LET tc == testdata[p][idx[p] + 1] IN
       \/ /\ calls' = [calls EXCEPT ![p] = Append(@, [pattern |-> tc.pattern, result |-> None])]
          /\ failed' = [failed EXCEPT ![p] = Append(@, tc.pattern)]
          /\ idx' = [idx EXCEPT ![p] = LoopAdvance(@, Len(testdata[p]), FALSE)]
          /\ UNCHANGED migrated
       \/ \E r \in AnalysisResults :
          /\ calls' = [calls EXCEPT ![p] = Append(@, [pattern |-> tc.pattern, result |-> Some(r)])]
          /\ migrated' = [migrated EXCEPT ![p] = Append(@, MigratedTestCase(tc, r))]
          /\ idx' = [idx EXCEPT ![p] = LoopAdvance(@, Len(testdata[p]), TRUE)]
          /\ UNCHANGED failed
    /\ UNCHANGED <<file, pc, prog, pattern, inputs_arg, analysis, testdata, existing_idx,
                   exitcode, before, latest, passed, repeated, seen, after>>
    /\ UNCHANGED chartvars

\* After the loop: exit 1 if a pattern failed; otherwise sort and open the file.
MigrateFinish(p) ==
    /\ pc[p] = "g_loop"
    /\ idx[p] = Len(testdata[p])
    /\ IF MigrateAborts(failed[p])
       THEN /\ Exit(p, 1)
            /\ UNCHANGED <<file, migrated, passed>>
       ELSE /\ passed' = [passed EXCEPT ![p] = migrated[p]]
            /\ migrated' = [migrated EXCEPT ![p] = SortByHash(migrated[p])]
            /\ file' = TruncatedFile
            /\ pc' = [pc EXCEPT ![p] = "g_dump"]
            /\ UNCHANGED exitcode
    /\ UNCHANGED <<prog, pattern, inputs_arg, analysis, testdata, existing_idx, failed, idx,
                   before, calls, latest, repeated, seen, after>>
    /\ UNCHANGED chartvars

\* The analyzer result of the last successful call for pattern P in the log, or old.
LastResult(log, P, old) ==
    LET hits == {i \in 1..Len(log) : log[i].pattern = P /\ log[i].result # None} IN
    IF hits = {} THEN old
    ELSE log[CHOOSE i \in hits : \A j \in hits : j <= i].result

\* Write back; the summary is printed and main ends.
MigrateDump(p) ==
    /\ pc[p] = "g_dump"
    /\ file' = WrittenFile(migrated[p])
    /\ Exit(p, 0)
    /\ latest' = [P \in Patterns |-> LastResult(calls[p], P, latest[P])]
    /\ UNCHANGED <<prog, locals, before, calls, passed, repeated, seen, after>>
    /\ UNCHANGED chartvars

Migrate(p) == MigrateStart(p) \/ MigrateAnalyze(p) \/ MigrateFinish(p) \/ MigrateDump(p)

(***************************************************************************)
(* The scripts, run one invocation at a time                               *)
(***************************************************************************)

Next == \E p \in SeqProcs : Manage(p) \/ Migrate(p) \/ Return(p)

Spec == Init /\ [][Next]_vars

(***************************************************************************)
(* The record store alone: save_testdata and load_testdata applied to      *)
(* lists of records, by two invocations holding the same records in two    *)
(* orders                                                                  *)
(***************************************************************************)

\* Records a list handed to save_testdata may hold for pattern pat.
StoreRecords(pat) ==
    {LegacyRecord(pat, Some(<<"hello world">>))}
        \cup {TestCase(pat, <<"example">>, r) : r \in AnalysisResults}

\* Lists with pairwise distinct patterns.
StoreLists ==
    UNION { { [i \in 1..Len(ps) |-> recs[i]] :
                recs \in { f \in [1..Len(ps) -> UNION {StoreRecords(q) : q \in Patterns}] :
                             \A i \in 1..Len(ps) : f[i].pattern = ps[i] } } :
            ps \in DistinctSeqs(Patterns, Cardinality(Patterns)) }

\* t is s in another (or the same) order.
IsPermutation(s, t) ==
    /\ Len(s) = Len(t)
    /\ \E f \in [1..Len(s) -> 1..Len(s)] :
         /\ \A i, j \in 1..Len(s) : i # j => f[i] # f[j]
         /\ \A i \in 1..Len(s) : t[i] = s[f[i]]

StoreInit ==
    /\ file = AbsentFile
    /\ pc = [p \in Procs |-> "m_save"]
    /\ \E s \in StoreLists, t \in StoreLists :
         /\ IsPermutation(s, t)
         /\ testdata = [p \in Procs |-> IF p = 1 THEN s ELSE t]
    /\ latest = NoLatest
    /\ IdleLocals

\* load_testdata() by an invocation that saves what it loaded, unchanged.
StoreLoad(p) ==
    /\ pc[p] = "exit"
    /\ before' = [before EXCEPT ![p] = file]
    /\ seen' = [seen EXCEPT ![p] = Some(file)]
    /\ after' = AfterSaved(p)
    /\ LET loaded == load_testdata(file) IN
       IF loaded.raised
       THEN /\ Exit(p, 1)
            /\ UNCHANGED testdata
       ELSE /\ testdata' = [testdata EXCEPT ![p] = loaded.data]
            /\ pc' = [pc EXCEPT ![p] = "m_save"]
            /\ exitcode' = [exitcode EXCEPT ![p] = None]
    /\ UNCHANGED <<file, prog, pattern, inputs_arg, analysis, existing_idx, migrated, failed,
                   idx, calls, latest, passed, repeated>>
    /\ UNCHANGED chartvars

StoreNext == \E p \in Procs : SaveOpen(p) \/ SaveDump(p) \/ StoreLoad(p)

StoreSpec == StoreInit /\ [][StoreNext]_vars

(***************************************************************************)
(* Two invocations at once: each makes one run, of either script, against  *)
(* the same store file; their steps interleave freely (no lock is taken)   *)
(***************************************************************************)

\* Stores present before the two runs: the empty list, or a record of pattern "A+".
ConcStores == {s \in InitStores : \A i \in 1..Len(s) : s[i].pattern = "A+"}

ConcInit ==
    /\ file \in {AbsentFile} \cup {WrittenFile(s) : s \in ConcStores}
    /\ pc = [p \in Procs |-> "idle"]
    /\ testdata = [p \in Procs |-> << >>]
    /\ latest = NoLatest
    /\ IdleLocals

\* The one manage run of invocation p begins.
ConcManageAnalyze(p) == pc[p] = "idle" /\ ManageAnalyze(p)

ConcNext ==
    \E p \in Procs :
        \/ ConcManageAnalyze(p) \/ ManageLoad(p) \/ SaveOpen(p) \/ SaveDump(p)
        \/ Migrate(p)

ConcSpec == ConcInit /\ [][ConcNext]_vars

(***************************************************************************)
(* curated/chart.py                                                        *)
(***************************************************************************)

\* Longest standard input of a chart run.
MaxLines == 3

\* Most pairs handed to generate_chart.
MaxPairs == 9

\* sorted_benchmarks[:8]
TopN == 8

\* (Match|FindFirst|FindAll|Replace)
Categories == {"Match", "FindFirst", "FindAll", "Replace"}

\* A line of input, by the parts the regular expression looks at: the name after
\* "Benchmark", the category, the variant before "-<cpus>", the token before "ns/op".
BenchLine(name, category, variant, ns_op) ==
    [name |-> name, category |-> category, variant |-> variant, ns_op |-> ns_op]

\* A line of other output ("PASS", "ok ...", a log line).
NoiseLine == BenchLine("", "", "", "")

\* Lines of input: samples of two benchmarks for three variants, samples of 0 ns/op,
\* a sample whose token is made of digits and dots and is no number, samples of a
\* category outside the four, and noise.
BenchLines ==
    {BenchLine(n, "Match", v, t) :
        n \in {"Foo", "Bar"}, v \in {"stdlib", "regengo", "regengo_reuse"},
        t \in {"50.0", "10.0"}}
    \cup {BenchLine("Foo", "Match", "regengo", "0.00"),
          BenchLine("Foo", "Match", "stdlib", "0.00"),
          BenchLine("Foo", "Match", "regengo_reuse", "1.2.3"),
          BenchLine("Foo", "Split", "stdlib", "50.0"),
          BenchLine("Foo", "Split", "regengo", "10.0"),
          NoiseLine}

\* [\d.]+ : the tokens made of digits and dots only.
DigitsAndDots == {"50.0", "10.0", "0.00", "1.2.3"}

\* Faulty variant: the category is any word (\w+), not one of the four.
CategoryAny(category) == category # ""

\* (Match|FindFirst|FindAll|Replace)
CategoryMatches(category) == category \in Categories

\* pattern.search(line): the groups (name, category, variant, ns_op), or None.
pattern_search(line) ==
    IF /\ line.name # ""
       /\ CategoryMatches(line.category)
       /\ line.variant # ""
       /\ line.ns_op \in DigitsAndDots
    THEN Some(line)
    ELSE None

\* float(ns_op), in ns/op; a token that is no number raises ValueError.
float(s) ==
    CASE s = "50.0" -> [raised |-> FALSE, v |-> 50]
      [] s = "10.0" -> [raised |-> FALSE, v |-> 10]
      [] s = "0.00" -> [raised |-> FALSE, v |-> 0]
      [] OTHER -> [raised |-> TRUE, v |-> 0]

\* f"{name}/{category}"
Key(name, category) == name \o "/" \o category

\* The greatest common divisor of a >= 0 and b > 0.
RECURSIVE Gcd(_, _)
Gcd(a, b) == IF a = 0 THEN b ELSE Gcd(b % a, a)

\* The number a / b (b > 0), kept as a fraction in lowest terms.
Frac(a, b) == [num |-> a \div Gcd(a, b), den |-> b \div Gcd(a, b)]

\* sum(values)
RECURSIVE sum(_)
sum(values) == IF values = << >> THEN 0 ELSE Head(values) + sum(Tail(values))

\* sum(values) / len(values)
Mean(values) == Frac(sum(values), Len(values))

\* results[key][variant].append(ns_op): results is a dict in insertion order, each
\* value a dict of two lists.
Collect(res, key, variant, ns_op) ==
    LET old ==
            IF \E i \in 1..Len(res) : res[i].key = key THEN res
            ELSE Append(res, [key |-> key, stdlib |-> << >>, regengo |-> << >>])
        i == CHOOSE j \in 1..Len(old) : old[j].key = key
    IN IF variant = "stdlib"
       THEN [old EXCEPT ![i].stdlib = Append(@, ns_op)]
       ELSE [old EXCEPT ![i].regengo = Append(@, ns_op)]

\* The loop over the lines: [raised, results] (ValueError raised by float).
RECURSIVE CollectLines(_, _)
CollectLines(ls, res) ==
    IF ls = << >> THEN [raised |-> FALSE, results |-> res]
    ELSE LET match == pattern_search(Head(ls)) IN
         IF match = None THEN CollectLines(Tail(ls), res)
         ELSE LET ns_op == float(match[1].ns_op)
                  key == Key(match[1].name, match[1].category)
              IN IF ns_op.raised THEN [raised |-> TRUE, results |-> << >>]
                 ELSE IF match[1].variant \in {"stdlib", "regengo"}
                 THEN CollectLines(Tail(ls), Collect(res, key, match[1].variant, ns_op.v))
                 ELSE CollectLines(Tail(ls), res)

\* if data["stdlib"] and data["regengo"]
Complete(data) == data.stdlib # << >> /\ data.regengo # << >>

\* The averaging loop: the keys with samples of both variants, each with its means.
Averaged(res) ==
    LET kept == SelectSeq(res, Complete) IN
    [i \in 1..Len(kept) |->
        [key |-> kept[i].key,
         stdlib |-> Mean(kept[i].stdlib),
         regengo |-> Mean(kept[i].regengo)]]

\* parse_benchmark_output(lines): [raised, averaged].
parse_benchmark_output(ls) ==
    LET collected == CollectLines(ls, << >>) IN
    IF collected.raised THEN [raised |-> TRUE, averaged |-> << >>]
    ELSE [raised |-> FALSE, averaged |-> Averaged(collected.results)]

\* x[1]["stdlib"] / x[1]["regengo"], for a regengo mean that is not 0.
Speedup(data) == Frac(data.stdlib.num * data.regengo.den, data.stdlib.den * data.regengo.num)

\* x < y, for two fractions.
Less(x, y) == x.num * y.den < y.num * x.den

\* Faulty variant: reverse=True is left out, the smallest speedup comes first.
GoesBeforeAscending(x, y) == Less(x, y)

\* sorted(..., reverse=True): an item of key x is placed before an item of key y.
GoesBefore(x, y) == Less(y, x)

\* e placed into s, sorted already: after the items that go before it and after the
\* items of equal key (the sort is stable).
InsertBySpeedup(s, e) ==
    LET stays == {i \in 1..Len(s) : ~GoesBefore(Speedup(e), Speedup(s[i]))}
        k == IF stays = {} THEN 0 ELSE CHOOSE i \in stays : \A j \in stays : j <= i
    IN SubSeq(s, 1, k) \o <<e>> \o SubSeq(s, k + 1, Len(s))

\* sorted(valid_benchmarks.items(), key=speedup, reverse=True)
RECURSIVE SortBySpeedup(_)
SortBySpeedup(s) ==
    IF s = << >> THEN << >>
    ELSE InsertBySpeedup(SortBySpeedup(SubSeq(s, 1, Len(s) - 1)), s[Len(s)])

\* if "stdlib" in data and "regengo" in data
Valid(data) == {"stdlib", "regengo"} \subseteq DOMAIN data

\* The bar of one benchmark: its name, the two times, the speedup annotated.
Bar(data) ==
    [name |-> data.key, stdlib |-> data.stdlib, regengo |-> data.regengo,
     speedup |-> Speedup(data)]

\* generate_chart(results): [raised, success, bars]; raised is the ZeroDivisionError
\* of the sort key.
generate_chart(res) ==
    LET valid_benchmarks == SelectSeq(res, Valid) IN
    IF valid_benchmarks = << >>
    THEN [raised |-> FALSE, success |-> FALSE, bars |-> << >>]
    ELSE IF \E i \in 1..Len(valid_benchmarks) : valid_benchmarks[i].regengo.num = 0
    THEN [raised |-> TRUE, success |-> FALSE, bars |-> << >>]
    ELSE LET sorted_benchmarks == SortBySpeedup(valid_benchmarks)
             top == SubSeq(sorted_benchmarks, 1,
                           IF Len(sorted_benchmarks) < TopN THEN Len(sorted_benchmarks)
                           ELSE TopN)
         IN [raised |-> FALSE, success |-> TRUE,
             bars |-> [i \in 1..Len(top) |-> Bar(top[i])]]

\* The script starts: matplotlib cannot be imported (exit 1), or main reads standard
\* input and ends with status 1 when there is no line.
ChartStart(p) ==
    /\ pc[p] = "idle"
    /\ prog' = [prog EXCEPT ![p] = "chart"]
    /\ \/ /\ Exit(p, 1)
          /\ UNCHANGED lines
       \/ \E n \in 0..MaxLines : \E ls \in [1..n -> BenchLines] :
          /\ lines' = [lines EXCEPT ![p] = ls]
          /\ IF ls = << >>
             THEN Exit(p, 1)
             ELSE /\ pc' = [pc EXCEPT ![p] = "c_parse"]
                  /\ UNCHANGED exitcode
    /\ UNCHANGED <<file, locals, history, results, chart>>

\* results = parse_benchmark_output(lines); `if not results`: exit 1.
ChartParse(p) ==
    /\ pc[p] = "c_parse"
    /\ LET parsed == parse_benchmark_output(lines[p]) IN
       IF parsed.raised
       THEN /\ Exit(p, 1)
            /\ UNCHANGED results
       ELSE /\ results' = [results EXCEPT ![p] = Some(parsed.averaged)]
            /\ IF parsed.averaged = << >>
               THEN Exit(p, 1)
               ELSE /\ pc' = [pc EXCEPT ![p] = "c_chart"]
                    /\ UNCHANGED exitcode
    /\ UNCHANGED <<file, prog, locals, history, lines, chart>>

\* success = generate_chart(results); sys.exit(0 if success else 1). The chart file
\* is written by plt.savefig at the end of generate_chart.
ChartGenerate(p) ==
    /\ pc[p] = "c_chart"
    /\ LET generated == generate_chart(results[p][1]) IN
       IF generated.raised
       THEN /\ Exit(p, 1)
            /\ UNCHANGED chart
       ELSE IF generated.success
       THEN /\ chart' = Some(generated.bars)
            /\ Exit(p, 0)
       ELSE /\ Exit(p, 1)
            /\ UNCHANGED chart
    /\ UNCHANGED <<file, prog, locals, history, lines, results>>

ChartNext == \E p \in SeqProcs : ChartStart(p) \/ ChartParse(p) \/ ChartGenerate(p)

\* Before a chart run: no chart file yet; the store plays no part.
ChartInit == Init /\ file = AbsentFile

ChartSpec == ChartInit /\ [][ChartNext]_vars

(***************************************************************************)
(* generate_chart alone, applied to averaged results of up to MaxPairs     *)
(* benchmarks                                                              *)
(***************************************************************************)

\* The keys of the results, in the order of their first sample.
RankKeys ==
    <<Key("Foo", "Match"), Key("Foo", "FindFirst"), Key("Foo", "FindAll"),
      Key("Foo", "Replace"), Key("Bar", "Match"), Key("Bar", "FindFirst"),
      Key("Bar", "FindAll"), Key("Bar", "Replace"), Key("Baz", "Match"),
      Key("Baz", "FindFirst"), Key("Baz", "FindAll"), Key("Baz", "Replace")>>

\* The two means of a benchmark: regengo five times faster, as fast, or measured 0.
MeanPairs ==
    {[stdlib |-> Frac(50, 1), regengo |-> Frac(10, 1)],
     [stdlib |-> Frac(10, 1), regengo |-> Frac(10, 1)],
     [stdlib |-> Frac(10, 1), regengo |-> Frac(0, 1)]}

\* The results parse_benchmark_output returns for benchmarks of means m[1], m[2], ...
RankResults(m) ==
    [i \in 1..Len(m) |->
        [key |-> RankKeys[i], stdlib |-> m[i].stdlib, regengo |-> m[i].regengo]]

RankInit ==
    /\ file = AbsentFile
    /\ pc = [p \in Procs |-> IF p \in SeqProcs THEN "c_chart" ELSE "idle"]
    /\ prog = [p \in Procs |-> IF p \in SeqProcs THEN "chart" ELSE "none"]
    /\ \E n \in 1..MaxPairs : \E m \in [1..n -> MeanPairs] :
         results = [p \in Procs |-> IF p \in SeqProcs THEN Some(RankResults(m)) ELSE None]
    /\ lines = [p \in Procs |-> << >>]
    /\ chart = None
    /\ pattern = [p \in Procs |-> ""]
    /\ inputs_arg = [p \in Procs |-> None]
    /\ analysis = [p \in Procs |-> None]
    /\ testdata = [p \in Procs |-> << >>]
    /\ existing_idx = [p \in Procs |-> None]
    /\ migrated = [p \in Procs |-> << >>]
    /\ failed = [p \in Procs |-> << >>]
    /\ idx = [p \in Procs |-> 0]
    /\ exitcode = [p \in Procs |-> None]
    /\ before = [p \in Procs |-> AbsentFile]
    /\ calls = [p \in Procs |-> << >>]
    /\ latest = NoLatest
    /\ passed = [p \in Procs |-> << >>]
    /\ repeated = [p \in Procs |-> FALSE]
    /\ seen = [p \in Procs |-> None]
    /\ after = [p \in Procs |-> {}]

RankNext == \E p \in SeqProcs : ChartGenerate(p)

RankSpec == RankInit /\ [][RankNext]_vars

(***************************************************************************)
(* Properties                                                              *)
(***************************************************************************)

\* The records persisted in file f (none while the file is absent or being written).
StoreOf(f) == IF f.exists /\ f.complete THEN json_load(f.text) ELSE << >>

\* The positions of the records of store st whose pattern is P.
Positions(st, P) == {i \in 1..Len(st) : st[i].pattern = P}

HasRecord(st, P) == Positions(st, P) # {}

\* The first record of st for pattern P.
RecordOf(st, P) == st[CHOOSE i \in Positions(st, P) : \A j \in Positions(st, P) : i <= j]

\* Invocation p has ended a run of script name with status c.
Finished(p, name, c) == pc[p] = "exit" /\ prog[p] = name /\ exitcode[p] = Some(c)

\* C1 (uniqueness): whatever runs of manage and migrate have been made on a store
\* that began with pairwise distinct patterns, the persisted store holds at most one
\* record per pattern string (exact comparison: "a+" and "A+" are two patterns).
C1_Uniqueness ==
    \A P \in Patterns : Cardinality(Positions(StoreOf(file), P)) <= 1

\* A manage run has replaced the record of a pattern that was already stored, next
\* to the record of the same pattern in the other case.
C1_Witness ==
    \E p \in Procs :
        /\ Finished(p, "manage", 0)
        /\ existing_idx[p] # None
        /\ pattern[p] = "a+"
        /\ HasRecord(StoreOf(file), "A+")
        /\ latest["A+"] # None

\* C2 (batch atomicity): a migrate run in which the analyzer failed for a record
\* never writes: the store on disk stays the store the run found, and the run ends
\* with a non-zero status.
C2_BatchAtomicity ==
    \A p \in Procs :
        (prog[p] = "migrate" /\ failed[p] # << >>) =>
            /\ file = before[p]
            /\ pc[p] = "exit" => exitcode[p] = Some(1)
            /\ pc[p] \in {"g_loop", "exit"}

\* A migrate run over two records has ended after exactly one analysis failed and
\* the other succeeded.
C2_Witness ==
    \E p \in Procs :
        /\ Finished(p, "migrate", 1)
        /\ Len(testdata[p]) = 2
        /\ Len(failed[p]) = 1
        /\ Len(migrated[p]) = 1

\* C3 (idempotence): a manage run that repeats the upsert of the run just before it
\* (same pattern, same -i, same analyzer result) leaves the store as that run wrote
\* it, with exactly one record for the pattern.
C3_Idempotence ==
    \A p \in Procs :
        (Finished(p, "manage", 0) /\ repeated[p]) =>
            /\ file = before[p]
            /\ Cardinality(Positions(StoreOf(file), pattern[p])) = 1

\* An upsert with explicit inputs has been repeated on a store of several records.
C3_Witness ==
    \E p \in Procs :
        /\ Finished(p, "manage", 0)
        /\ repeated[p]
        /\ inputs_arg[p] = Some("[\"x\", 1]")
        /\ Len(StoreOf(file)) >= 2

\* C4 (input preservation): a manage run without -i stores, for a pattern that had a
\* record with inputs, those inputs unchanged, and for a pattern that had no record,
\* ["example"].
C4_InputPreservation ==
    \A p \in Procs :
        (Finished(p, "manage", 0) /\ inputs_arg[p] = None) =>
            LET old == StoreOf(before[p])
                new == StoreOf(file)
                P == pattern[p]
            IN /\ HasRecord(new, P)
               /\ (HasRecord(old, P) /\ "inputs" \in DOMAIN RecordOf(old, P)) =>
                      RecordOf(new, P).inputs = RecordOf(old, P).inputs
               /\ ~HasRecord(old, P) => RecordOf(new, P).inputs = <<"example">>

\* A manage run without -i has kept the inputs ["x", "1"] that an earlier run stored.
C4_Witness ==
    \E p \in Procs :
        /\ Finished(p, "manage", 0)
        /\ inputs_arg[p] = None
        /\ HasRecord(StoreOf(before[p]), pattern[p])
        /\ "inputs" \in DOMAIN RecordOf(StoreOf(before[p]), pattern[p])
        /\ RecordOf(StoreOf(before[p]), pattern[p]).inputs = <<"x", "1">>
        /\ RecordOf(StoreOf(file), pattern[p]).inputs = <<"x", "1">>

\* The inputs sequence an -i argument denotes when it is explicit and non-empty.
ExplicitNonEmpty(arg) == parse_inputs(arg) # None /\ parse_inputs(arg)[1] # << >>

\* C5 (input resolution): a manage run stores exactly the given sequence when -i
\* denotes a non-empty sequence; with any other -i (absent, "", "[]") a pattern that
\* had a record with inputs keeps them and a new pattern gets ["example"]; the inputs
\* stored by the run are never empty.
C5_InputResolution ==
    \A p \in Procs :
        Finished(p, "manage", 0) =>
            LET old == StoreOf(before[p])
                new == StoreOf(file)
                P == pattern[p]
            IN /\ HasRecord(new, P)
               /\ IF ExplicitNonEmpty(inputs_arg[p])
                  THEN RecordOf(new, P).inputs = parse_inputs(inputs_arg[p])[1]
                  ELSE /\ (HasRecord(old, P) /\ "inputs" \in DOMAIN RecordOf(old, P)) =>
                              RecordOf(new, P).inputs = RecordOf(old, P).inputs
                       /\ ~HasRecord(old, P) => RecordOf(new, P).inputs = <<"example">>
               /\ RecordOf(new, P).inputs # << >>

\* l holds the elements of src in ascending (code point) order.
SortedAscendingOf(l, src) ==
    /\ IsPermutation(src, l)
    /\ \A i, j \in 1..Len(l) : i < j => StrRank(l[i]) <= StrRank(l[j])

\* C6 (labels are the latest analysis): for every pattern a run has persisted, the
\* stored record's feature_labels and engine_labels are the labels of the analyzer
\* result of the most recent such run, in ascending order; nothing of earlier labels
\* remains.
C6_LabelsLatest ==
    (file.exists /\ file.complete) =>
        LET st == StoreOf(file) IN
        \A P \in Patterns :
            latest[P] # None =>
                /\ HasRecord(st, P)
                /\ LET rec == RecordOf(st, P) IN
                   /\ {"feature_labels", "engine_labels"} \subseteq DOMAIN rec
                   /\ SortedAscendingOf(rec.feature_labels, latest[P][1].feature_labels)
                   /\ SortedAscendingOf(rec.engine_labels, latest[P][1].engine_labels)

\* An upsert has replaced the two labels a pattern's record held by the single label
\* of a newer analysis.
C6_Witness ==
    \E p \in Procs :
        /\ Finished(p, "manage", 0)
        /\ HasRecord(StoreOf(before[p]), pattern[p])
        /\ "feature_labels" \in DOMAIN RecordOf(StoreOf(before[p]), pattern[p])
        /\ RecordOf(StoreOf(before[p]), pattern[p]).feature_labels = <<"anchor", "quantifier">>
        /\ analysis[p] = Some([feature_labels |-> <<"quantifier">>, engine_labels |-> <<"nfa">>])
        /\ RecordOf(StoreOf(file), pattern[p]).feature_labels = <<"quantifier">>

\* Invocation p has saved: its list is sorted and written.
Saved(p) == pc[p] = "exit" /\ exitcode[p] = Some(0)

\* C7 (canonical ordering determinism): two saves handed the same records with
\* pairwise distinct patterns, in whatever two orders, write the same sequence.
C7_OrderDeterminism ==
    \A p, q \in Procs :
        (Saved(p) /\ Saved(q) /\ IsPermutation(passed[p], passed[q])) =>
            /\ testdata[p] = testdata[q]
            /\ file.complete => file = WrittenFile(testdata[p])

\* Two saves of three records, handed over in two different orders, have completed.
C7_Witness ==
    /\ \A p \in Procs : Saved(p)
    /\ Len(passed[1]) = 3
    /\ passed[1] # passed[2]
    /\ IsPermutation(passed[1], passed[2])
    /\ file.complete

\* Invocation p has loaded a written store and saved it again without changing it.
Resaved(p) == Saved(p) /\ before[p].exists /\ before[p].complete

\* C8 (round trip): loading a store that a save wrote and saving it again leaves the
\* file as it was, however often this is repeated.
C8_RoundTrip ==
    \A p \in Procs : (Resaved(p) /\ file.complete) => file = before[p]

\* A store of three records has been loaded and saved again.
C8_Witness ==
    \E p \in Procs :
        /\ Resaved(p)
        /\ Len(before[p].text) = 3
        /\ file = before[p]

\* The analyzer did not deliver in the manage run of p: the binary was missing (no
\* call) or the call returned a non-zero status.
AnalyzerFailed(p) ==
    prog[p] = "manage" /\ (calls[p] = << >> \/ calls[p][Len(calls[p])].result = None)

\* C9 (manage fails fast): a manage run whose analyzer binary is missing or whose
\* analyzer call fails has ended at once with a non-zero status, after at most one
\* analyzer call, and the store on disk is what it was before the run.
C9_ManageFailsFast ==
    \A p \in Procs :
        AnalyzerFailed(p) =>
            /\ pc[p] = "exit"
            /\ exitcode[p] = Some(1)
            /\ Len(calls[p]) <= 1
            /\ file = before[p]

\* A manage run on a store of two records has ended on a failed analyzer call.
C9_Witness ==
    \E p \in Procs :
        /\ AnalyzerFailed(p)
        /\ Len(calls[p]) = 1
        /\ pc[p] = "exit"
        /\ Len(StoreOf(file)) = 2

\* The patterns of the records of list l.
PatternsOf(l) == {l[i].pattern : i \in 1..Len(l)}

\* C10 (migration isolates failures): a migrate run calls the analyzer once per
\* record, in store order; it ends only after every record was analyzed, whatever
\* failed before; each record's pattern is then in failed if its analysis failed and
\* in migrated otherwise, never in both.
C10_MigrateIsolatesFailures ==
    \A p \in Procs :
        prog[p] = "migrate" =>
            /\ Len(calls[p]) = idx[p]
            /\ idx[p] <= Len(testdata[p])
            /\ \A i \in 1..idx[p] : calls[p][i].pattern = testdata[p][i].pattern
            /\ pc[p] \in {"g_dump", "exit"} => idx[p] = Len(testdata[p])
            /\ Len(migrated[p]) + Len(failed[p]) = idx[p]
            /\ \A i \in 1..idx[p] :
                 LET P == testdata[p][i].pattern
                     inFailed == \E j \in 1..Len(failed[p]) : failed[p][j] = P
                     inMigrated == P \in PatternsOf(migrated[p])
                 IN IF calls[p][i].result = None
                    THEN inFailed /\ ~inMigrated
                    ELSE inMigrated /\ ~inFailed

\* A migrate run over two records has ended; the analysis of the first record failed
\* and the second record was analyzed all the same.
C10_Witness ==
    \E p \in Procs :
        /\ Finished(p, "migrate", 1)
        /\ Len(testdata[p]) = 2
        /\ failed[p] = <<testdata[p][1].pattern>>
        /\ PatternsOf(migrated[p]) = {testdata[p][2].pattern}

\* C11 (migration frame): after a migrate run in which every analysis succeeded, the
\* persisted store has one record per record found, with exactly the patterns found
\* (none added, none dropped), and every record that had inputs has the same inputs;
\* a record differs from the one found in its label fields only.
C11_MigrateFrame ==
    \A p \in Procs :
        Finished(p, "migrate", 0) =>
            LET old == StoreOf(before[p])
                new == StoreOf(file)
            IN /\ Len(new) = Len(old)
               /\ PatternsOf(new) = PatternsOf(old)
               /\ \A P \in PatternsOf(old) :
                    LET o == RecordOf(old, P)
                        n == RecordOf(new, P)
                    IN /\ DOMAIN n = {"pattern", "inputs", "feature_labels", "engine_labels"}
                       /\ n.pattern = o.pattern
                       /\ "inputs" \in DOMAIN o => n.inputs = o.inputs

\* A migrate run has rewritten a store of two records, one of them holding the inputs
\* ["x", "1"] of an earlier upsert, and has replaced that record's labels.
C11_Witness ==
    \E p \in Procs :
        /\ Finished(p, "migrate", 0)
        /\ Len(StoreOf(before[p])) = 2
        /\ \E P \in PatternsOf(StoreOf(before[p])) :
             LET o == RecordOf(StoreOf(before[p]), P)
                 n == RecordOf(StoreOf(file), P)
             IN /\ "feature_labels" \in DOMAIN o
                /\ o.inputs = <<"x", "1">>
                /\ n.inputs = <<"x", "1">>
                /\ n.feature_labels # o.feature_labels

\* C13 (absent store): a run whose read of the store found no file does not fail on
\* that account: a manage run ends with status 0 and a store of exactly the record it
\* upserted; a migrate run ends with status 0, having analyzed and migrated nothing.
C13_AbsentStoreFirstRun ==
    \A p \in Procs :
        (pc[p] = "exit" /\ seen[p] = Some(AbsentFile)) =>
            /\ exitcode[p] = Some(0)
            /\ prog[p] = "manage" =>
                   /\ Len(StoreOf(file)) = 1
                   /\ StoreOf(file)[1].pattern = pattern[p]
            /\ prog[p] = "migrate" =>
                   /\ calls[p] = << >>
                   /\ migrated[p] = << >>
                   /\ file = WrittenFile(<< >>)

\* C12 (save is atomic for readers): whatever the interleaving of one run's save
\* with another run's read of the store, the file the read finds is a complete
\* document (the list before the save or the list saved), never an empty or
\* partly written file.
C12_SaveAtomicForReaders ==
    \A p \in Procs :
        seen[p] # None => (seen[p][1].exists => seen[p][1].complete)

\* The two runs of p and q are manage runs on different patterns, both ended with
\* status 0.
BothUpserted(p, q) ==
    /\ p # q
    /\ Finished(p, "manage", 0)
    /\ Finished(q, "manage", 0)
    /\ pattern[p] # pattern[q]

\* The record the manage run of p wrote for its pattern.
Upserted(p) == RecordOf(testdata[p], pattern[p])

\* The persisted store holds the record the manage run of p wrote.
Kept(p) ==
    /\ HasRecord(StoreOf(file), pattern[p])
    /\ RecordOf(StoreOf(file), pattern[p]) = Upserted(p)

\* C18 (lost update unless serialized): of two manage runs on different patterns
\* that both ended with status 0, when the save of one preceded the other's load the
\* store holds the records of both; when both loaded before either saved, the store
\* is the list of the run that saved last and lacks the record the other run wrote.
C18_LostUpdateUnlessSerialized ==
    \A p, q \in Procs :
        BothUpserted(p, q) =>
            /\ p \in after[q] => (Kept(p) /\ Kept(q))
            /\ (after[p] = {} /\ after[q] = {} /\ file = WrittenFile(testdata[q])) =>
                   (Kept(q) /\ ~Kept(p))

\* Two manage runs, on "a+" and on "hello", have loaded the same store before either
\* saved; both ended with status 0 and the store has no record of "a+".
C18_Witness ==
    \E p, q \in Procs :
        /\ BothUpserted(p, q)
        /\ pattern[p] = "a+"
        /\ pattern[q] = "hello"
        /\ after[p] = {}
        /\ after[q] = {}
        /\ seen[p] = seen[q]
        /\ ~HasRecord(StoreOf(file), "a+")
        /\ HasRecord(StoreOf(file), "hello")

\* Two manage runs, one after the other's save, have left the records of both.
C18_Serialized ==
    \E p, q \in Procs : BothUpserted(p, q) /\ p \in after[q] /\ Kept(p) /\ Kept(q)

\* The records of st are in ascending order of the MD5 digest of their pattern.
Canonical(st) ==
    \A i, j \in 1..Len(st) : i < j => md5_hash(st[i].pattern) < md5_hash(st[j].pattern)

\* C17 (canonical order): after every manage or migrate run that ended with status 0,
\* the persisted records are in ascending order of the MD5 digest of their pattern,
\* whatever the order the run held them in and whatever the order of the pattern
\* texts.
C17_CanonicalOrder ==
    \A p \in Procs :
        (Finished(p, "manage", 0) \/ Finished(p, "migrate", 0)) =>
            /\ file.exists /\ file.complete
            /\ Canonical(StoreOf(file))

\* A manage run has appended "A+" to the records of "hello" and "a+"; the store holds
\* them as "A+", "hello", "a+" (digests 13fe.., 5d41.., c894..), which is neither the
\* order of insertion nor the order of the texts ("A+", "a+", "hello").
C17_Witness ==
    \E p \in Procs :
        /\ Finished(p, "manage", 0)
        /\ pattern[p] = "A+"
        /\ existing_idx[p] = None
        /\ [i \in 1..Len(passed[p]) |-> passed[p][i].pattern] = <<"hello", "a+", "A+">>
        /\ [i \in 1..Len(StoreOf(file)) |-> StoreOf(file)[i].pattern] = <<"A+", "hello", "a+">>

\* The records of st whose pattern is not P, in the order of st.
Others(st, P) ==
    LET other(r) == r.pattern # P IN SelectSeq(st, other)

\* C19 (upsert frame): a manage run that ended with status 0 on a store in canonical
\* order has changed the record of its pattern only: the records of the other
\* patterns are persisted with the fields they had and in the same relative order; a
\* record replaced is at the position it had, a new record is at the position of its
\* digest.
C19_UpsertFrame ==
    \A p \in Procs :
        (Finished(p, "manage", 0) /\ Canonical(StoreOf(before[p]))) =>
            LET old == StoreOf(before[p])
                new == StoreOf(file)
                P == pattern[p]
            IN /\ Others(new, P) = Others(old, P)
               /\ Cardinality(Positions(new, P)) = 1
               /\ HasRecord(old, P) => Positions(new, P) = Positions(old, P)
               /\ Canonical(new)

\* A manage run has inserted "hello" between the records of "A+" and "a+", and those
\* two are persisted as they were.
C19_Witness ==
    \E p \in Procs :
        /\ Finished(p, "manage", 0)
        /\ pattern[p] = "hello"
        /\ Len(StoreOf(before[p])) = 2
        /\ Canonical(StoreOf(before[p]))
        /\ ~HasRecord(StoreOf(before[p]), "hello")
        /\ Positions(StoreOf(file), "hello") = {2}
        /\ Others(StoreOf(file), "hello") = StoreOf(before[p])

\* The tokens that are numbers, with their value in ns/op.
NsPerOp == [t \in {"50.0", "10.0", "0.00"} |-> IF t = "50.0" THEN 50 ELSE IF t = "10.0" THEN 10 ELSE 0]

\* Line l is a sample of variant v for benchmark name n and category c: it follows
\* the grammar, with one of the four categories and a number before ns/op.
IsSample(l, n, c, v) ==
    /\ l.name = n /\ n # ""
    /\ l.category = c /\ c \in Categories
    /\ l.variant = v
    /\ l.ns_op \in DOMAIN NsPerOp

\* The names and categories of the input lines.
NamesOf(ls) == {ls[i].name : i \in 1..Len(ls)}

CategoriesOf(ls) == {ls[i].category : i \in 1..Len(ls)}

\* The positions of the samples of variant v for (n, c) in ls.
Samples(ls, n, c, v) == {i \in 1..Len(ls) : IsSample(ls[i], n, c, v)}

\* The total of the values at positions S of ls.
RECURSIVE Total(_, _)
Total(ls, S) ==
    IF S = {} THEN 0
    ELSE LET i == CHOOSE j \in S : TRUE IN NsPerOp[ls[i].ns_op] + Total(ls, S \ {i})

\* (n, c) has a sample of the baseline (stdlib) and one of the candidate (regengo).
IsComplete(ls, n, c) == Samples(ls, n, c, "stdlib") # {} /\ Samples(ls, n, c, "regengo") # {}

\* Fraction m is the mean of the values at positions S of ls.
IsMeanOf(m, ls, S) == m.num * Cardinality(S) = Total(ls, S) * m.den

\* The aggregate output of the chart run of p: what parse_benchmark_output returned
\* (nothing when it did not return).
Aggregate(p) == IF results[p] = None THEN << >> ELSE results[p][1]

\* The chart run of p is past the call of parse_benchmark_output.
Aggregated(p) == prog[p] = "chart" /\ lines[p] # << >> /\ pc[p] \in {"c_chart", "exit"}

\* C14 (complete pairs only): for every input, a (subject, category) key is in the
\* aggregate output exactly when the input has a matching line of stdlib and a
\* matching line of regengo for it, and its two values are the means of those lines'
\* values; lines that do not match and lines of other variants add no key and change
\* no value.
C14_CompletePairsOnly ==
    \A p \in Procs :
        Aggregated(p) =>
            LET out == Aggregate(p) IN
            /\ \A i, j \in 1..Len(out) : i # j => out[i].key # out[j].key
            /\ \A n \in NamesOf(lines[p]), c \in CategoriesOf(lines[p]) :
                 IsComplete(lines[p], n, c) <=>
                     \E i \in 1..Len(out) :
                         /\ out[i].key = Key(n, c)
                         /\ IsMeanOf(out[i].stdlib, lines[p], Samples(lines[p], n, c, "stdlib"))
                         /\ IsMeanOf(out[i].regengo, lines[p], Samples(lines[p], n, c, "regengo"))
            /\ \A i \in 1..Len(out) :
                 \E n \in NamesOf(lines[p]), c \in CategoriesOf(lines[p]) :
                     out[i].key = Key(n, c) /\ IsComplete(lines[p], n, c)

\* Some line of ls follows the grammar (whatever its variant).
HasMatchingLine(ls) ==
    \E i \in 1..Len(ls) :
        /\ ls[i].name # ""
        /\ ls[i].category \in Categories
        /\ ls[i].variant # ""
        /\ ls[i].ns_op \in DOMAIN NsPerOp

\* Some (subject, category) of ls has a stdlib sample and a regengo sample.
HasCompletePair(ls) ==
    \E n \in NamesOf(ls), c \in CategoriesOf(ls) : IsComplete(ls, n, c)

\* C16 (exit codes of the chart run): a run whose input has no matching line, or no
\* (subject, category) with both a stdlib and a regengo sample, ends with a non-zero
\* status and no chart; a run ends with status 0 only with a chart drawn from at
\* least one complete pair; no run that ends otherwise leaves a chart.
C16_ChartExitCodes ==
    \A p \in Procs :
        (prog[p] = "chart" /\ pc[p] = "exit") =>
            /\ (~HasMatchingLine(lines[p]) \/ ~HasCompletePair(lines[p])) =>
                   (exitcode[p] # Some(0) /\ chart = None)
            /\ exitcode[p] = Some(0) =>
                   /\ chart # None
                   /\ Len(chart[1]) >= 1
                   /\ \A i \in 1..Len(chart[1]) :
                        \E n \in NamesOf(lines[p]), c \in CategoriesOf(lines[p]) :
                            chart[1][i].name = Key(n, c) /\ IsComplete(lines[p], n, c)
            /\ exitcode[p] # Some(0) => chart = None

\* A run has read samples of stdlib only, for two benchmarks, and ended with status 1
\* and no chart.
C16_Witness ==
    \E p \in Procs :
        /\ prog[p] = "chart" /\ pc[p] = "exit"
        /\ Len(lines[p]) = 2
        /\ \A i \in 1..2 : lines[p][i].variant = "stdlib" /\ lines[p][i].category = "Match"
        /\ lines[p][1].name # lines[p][2].name
        /\ results[p] = Some(<< >>)
        /\ exitcode[p] = Some(1)
        /\ chart = None

\* A run has drawn a chart of one bar from a complete pair and ended with status 0.
C16_Charted ==
    \E p \in Procs :
        /\ prog[p] = "chart" /\ pc[p] = "exit"
        /\ exitcode[p] = Some(0)
        /\ chart # None
        /\ Len(chart[1]) = 1

\* C20 (ranking is total): for every non-empty aggregate output (each key with a
\* stdlib mean and a regengo mean of samples >= 0), generate_chart computes every
\* speedup and completes with a ranked list, also when a regengo mean is 0.
C20_RankingTotal ==
    \A p \in Procs :
        (prog[p] = "chart" /\ pc[p] = "exit" /\ results[p] # None /\ results[p][1] # << >>) =>
            /\ chart # None
            /\ Len(chart[1]) >= 1
            /\ exitcode[p] = Some(0)

\* The speedup stdlib / regengo of x is strictly greater than that of y (both with a
\* regengo mean that is not 0).
FasterThan(x, y) ==
    y.stdlib.num * y.regengo.den * x.stdlib.den * x.regengo.num
        < x.stdlib.num * x.regengo.den * y.stdlib.den * y.regengo.num

\* C15 (ranking): the bars of a chart are min(8, number of pairs) of the pairs of
\* the results, each once, with its two means and the speedup stdlib / regengo, in
\* non-increasing order of speedup; no pair left out has a speedup strictly greater
\* than a pair shown.
C15_RankingTopN ==
    \A p \in Procs :
        (prog[p] = "chart" /\ chart # None) =>
            LET res == results[p][1]
                bars == chart[1]
                shown == {bars[i].name : i \in 1..Len(bars)}
            IN /\ Len(bars) = (IF Len(res) < 8 THEN Len(res) ELSE 8)
               /\ \A i, j \in 1..Len(bars) : i # j => bars[i].name # bars[j].name
               /\ \A i \in 1..Len(bars) :
                    \E k \in 1..Len(res) :
                        /\ res[k].key = bars[i].name
                        /\ res[k].stdlib = bars[i].stdlib
                        /\ res[k].regengo = bars[i].regengo
                        /\ bars[i].speedup.num * res[k].stdlib.den * res[k].regengo.num
                               = res[k].stdlib.num * res[k].regengo.den * bars[i].speedup.den
               /\ \A i, j \in 1..Len(bars) : i < j => ~FasterThan(bars[j], bars[i])
               /\ \A k \in 1..Len(res) :
                    res[k].key \notin shown =>
                        \A i \in 1..Len(bars) : ~FasterThan(res[k], bars[i])

\* A chart of eight bars has been drawn from nine pairs: seven of speedup 5 first,
\* then the second pair of the results, of speedup 1; the pair left out is the fifth,
\* as fast as the second.
C15_Witness ==
    \E p \in Procs :
        /\ prog[p] = "chart" /\ pc[p] = "exit"
        /\ chart # None
        /\ Len(results[p][1]) = 9
        /\ Len(chart[1]) = 8
        /\ \A i \in 1..8 : chart[1][i].name # results[p][1][5].key
        /\ chart[1][1].name = results[p][1][1].key
        /\ chart[1][7].speedup = Frac(5, 1)
        /\ chart[1][8].speedup = Frac(1, 1)
        /\ chart[1][8].name = results[p][1][2].key

====
